---- MODULE Spec2Model ----
(***************************************************************************)
(* The EditTeamMember form of flock's web client: the capability table of  *)
(* the member types, the option lists derived from the catalogs, the form  *)
(* state kept by useForm (values, default values, isDirty), the update     *)
(* mutation and the two views (modal dialog, inline panel).                *)
(***************************************************************************)
EXTENDS Integers, Sequences, FiniteSets, TLC

VARIABLES
    member,                \* prop member: the MemberOut under edit
    isOpen,                \* prop isOpen, owned by the parent, cleared by onClose
    skills,                \* useSkillsQuery result
    uploads,               \* useUploadsQuery result
    models,                \* useModelQuery result
    formValues,            \* useForm: the current field values (the draft)
    defaultValues,         \* useForm: the values of the last reset (the committed snapshot)
    isDirty,               \* useForm: formState.isDirty
    inFlight,              \* updateMember calls awaiting their response
    currentMutation,       \* the call the useMutation result observes (0: none yet)
    calls,                 \* number of updateMember calls issued so far
    steps,                 \* number of events handled so far
    selectedModelProvider, \* useState: provider shown by the model selector
    serverMember,          \* the member as stored by the server
    invalidated,           \* the members query was invalidated and not yet refetched
    options,               \* the option lists of the last render
    toasts,                \* what the last step sent to showToast
    lastOp                 \* the handler that ran last, with its input

vars == <<member, isOpen, skills, uploads, models, formValues, defaultValues,
          isDirty, inFlight, currentMutation, calls, steps,
          selectedModelProvider, serverMember, invalidated, options, toasts,
          lastOp>>

----------------------------------------------------------------------------
(* Bounds of the model *)

MaxSteps == 5
MaxCatalog == 2

(* The longest name the name pattern admits *)
MaxNameLen == 64

----------------------------------------------------------------------------
(* Values *)

Null == "null"
(* The JavaScript value undefined, which is not the word it prints as *)
Undefined == "(undefined)"

MemberTypes ==
    {"root", "leader", "worker", "freelancer", "freelancer_root", "chatbot",
     "ragbot", "workflow"}

ALLOWED_MEMBER_CONFIGS ==
    [t \in MemberTypes |->
       CASE t = "root" ->
              [selection |-> <<"root">>, enableSkillTools |-> FALSE,
               enableUploadTools |-> FALSE, enableInterrupt |-> FALSE,
               enableHumanTool |-> FALSE]
         [] t = "leader" ->
              [selection |-> <<"worker", "leader">>, enableSkillTools |-> FALSE,
               enableUploadTools |-> FALSE, enableInterrupt |-> FALSE,
               enableHumanTool |-> FALSE]
         [] t = "worker" ->
              [selection |-> <<"worker", "leader">>, enableSkillTools |-> TRUE,
               enableUploadTools |-> TRUE, enableInterrupt |-> FALSE,
               enableHumanTool |-> FALSE]
         [] t = "freelancer" ->
              [selection |-> <<"freelancer">>, enableSkillTools |-> TRUE,
               enableUploadTools |-> TRUE, enableInterrupt |-> TRUE,
               enableHumanTool |-> TRUE]
         [] t = "freelancer_root" ->
              [selection |-> <<"freelancer_root">>, enableSkillTools |-> TRUE,
               enableUploadTools |-> TRUE, enableInterrupt |-> TRUE,
               enableHumanTool |-> TRUE]
         [] t = "chatbot" ->
              [selection |-> <<"chatbot">>, enableSkillTools |-> TRUE,
               enableUploadTools |-> TRUE, enableInterrupt |-> TRUE,
               enableHumanTool |-> TRUE]
         [] t = "ragbot" ->
              [selection |-> <<"ragbot">>, enableSkillTools |-> FALSE,
               enableUploadTools |-> TRUE, enableInterrupt |-> FALSE,
               enableHumanTool |-> FALSE]
         [] t = "workflow" ->
              [selection |-> <<"ragbot">>, enableSkillTools |-> FALSE,
               enableUploadTools |-> TRUE, enableInterrupt |-> FALSE,
               enableHumanTool |-> FALSE]]

Range(s) == {s[i] : i \in DOMAIN s}

(* The injective sequences over S of length at most n *)
InjectiveSeqs(S, n) ==
    UNION {{s \in [1..k -> S] : \A i, j \in 1..k : s[i] = s[j] => i = j} :
             k \in 0..n}

(* Array.prototype.map *)
MapSeq(s, F(_)) == [i \in DOMAIN s |-> F(s[i])]

(* A template literal `${x}`: undefined prints as the word undefined *)
TemplateString(x) == IF x = Undefined THEN "undefined" ELSE x

----------------------------------------------------------------------------
(* Entities of the catalogs *)

SkillSearch == [id |-> 1, name |-> "search"]
SkillAskHuman == [id |-> 2, name |-> "ask-human"]
SkillCalculator == [id |-> 3, name |-> "calculator"]
SkillUniverse == {SkillSearch, SkillAskHuman, SkillCalculator}

UploadHandbook == [id |-> 1, name |-> "handbook"]
UploadManual == [id |-> 2, name |-> "manual"]
UploadUniverse == {UploadHandbook, UploadManual}

ModelGpt == [ai_model_name |-> "gpt-4o", provider |-> [provider_name |-> "openai"]]
ModelClaude ==
    [ai_model_name |-> "claude-3", provider |-> [provider_name |-> "anthropic"]]
ModelGptAzure ==
    [ai_model_name |-> "gpt-4o", provider |-> [provider_name |-> "azure"]]

(* What the three fetches return when they succeed *)
SkillCatalog == <<SkillSearch, SkillAskHuman>>
UploadCatalog == <<UploadHandbook>>
ModelCatalog == <<ModelGpt, ModelClaude, ModelGptAzure>>

(* The names a model selection may carry; the last one is in no catalog *)
ModelNames == {"gpt-4o", "claude-3", "retired-model"}

(* A query result of react-query *)
QueryLoading == [status |-> "loading", data |-> <<>>, error |-> [detail |-> Undefined]]
QuerySuccess(catalog) ==
    [status |-> "success", data |-> catalog, error |-> [detail |-> Undefined]]
QueryError(detail) ==
    [status |-> "error", data |-> <<>>, error |-> [detail |-> detail]]

----------------------------------------------------------------------------
(* Field values *)

NameChars ==
    {"a", "b", "c", "d", "e", "f", "g", "h", "i", "j", "k", "l", "m", "n", "o",
     "p", "q", "r", "s", "t", "u", "v", "w", "x", "y", "z",
     "A", "B", "C", "D", "E", "F", "G", "H", "I", "J", "K", "L", "M", "N", "O",
     "P", "Q", "R", "S", "T", "U", "V", "W", "X", "Y", "Z",
     "0", "1", "2", "3", "4", "5", "6", "7", "8", "9", "_", "-"}

(* Names are sequences of characters *)
NameBob == <<"b", "o", "b">>
NameBad == <<"b", "a", "d", " ", "n", "a", "m", "e", "!">>
NameLong == [i \in 1..(MaxNameLen + 1) |-> "a"]
Names == {<<>>, NameBob, NameBad, NameLong}

Roles == {"", "developer"}
Backstories == {"", "ten years at sea"}
(* Slider positions (min 0, max 1, step 0.1) *)
SliderValues == {"0"}

(* register("name", {required, pattern: /^[a-zA-Z0-9_-]{1,64}$/}) *)
NameValid(name) ==
    /\ name # <<>>
    /\ Len(name) \in 1..MaxNameLen
    /\ \A i \in DOMAIN name : name[i] \in NameChars

(* register("role", {required}) *)
RoleValid(role) == role # ""

(* Controller temperature, rules {required: true}: 0 is a value, null is none *)
TemperatureValid(temperature) == temperature # Null /\ temperature # Undefined

(* formState.isValid: every registered rule passes on the current values *)
IsValid(values) ==
    /\ NameValid(values.name)
    /\ RoleValid(values.role)
    /\ TemperatureValid(values.temperature)

(* member.type.endsWith("bot"), over the member types *)
EndsWithBot(type) == type \in {"chatbot", "ragbot"}

(* member.type.startsWith("freelancer"), over the member types *)
StartsWithFreelancer(type) == type \in {"freelancer", "freelancer_root"}

(* The view: the inline panel for a bot, the modal dialog otherwise *)
IsInline(m) == EndsWithBot(m.type)

(* isDisabled of the type control *)
TypeDisabled(m) ==
    m.type = "root" \/ StartsWithFreelancer(m.type) \/ EndsWithBot(m.type)

(* The label/value decoration of a multi-select entry *)
Decorate(e) == [id |-> e.id, name |-> e.name, label |-> e.name, value |-> e.id]

(* An entity as the server returns it *)
Plain(e) == [id |-> e.id, name |-> e.name]

(* The values option of useForm *)
FormValuesOf(m) ==
    [m EXCEPT !.skills = MapSeq(m.skills, Decorate),
              !.uploads = MapSeq(m.uploads, Decorate)]

(* memberConfig read from the member under edit, not from the draft *)
memberConfig_OfMember(values) == ALLOWED_MEMBER_CONFIGS[member.type]

(* The value undefined where a configuration is expected *)
NoConfig == [undefined |-> TRUE]

(* ALLOWED_MEMBER_CONFIGS[watch("type")]: indexing the object by a key it
   does not have gives undefined *)
memberConfig(values) ==
    IF values.type \in DOMAIN ALLOWED_MEMBER_CONFIGS
    THEN ALLOWED_MEMBER_CONFIGS[values.type]
    ELSE NoConfig

(* skillOptions without its filter *)
skillOptions_NoFilter(skillsQuery, values) ==
    IF skillsQuery.status = "success"
    THEN MapSeq(skillsQuery.data, Decorate)
    ELSE <<>>

skillOptions(skillsQuery, values) ==
    IF skillsQuery.status = "success"
    THEN MapSeq(SelectSeq(skillsQuery.data,
                          LAMBDA skill : skill.name # "ask-human"
                                         \/ memberConfig(values).enableHumanTool),
                Decorate)
    ELSE <<>>

(* uploadOptions in the reverse of the catalog's order *)
uploadOptions_Reversed(uploadsQuery) ==
    IF uploadsQuery.status = "success"
    THEN [i \in DOMAIN uploadsQuery.data |->
            Decorate(uploadsQuery.data[Len(uploadsQuery.data) + 1 - i])]
    ELSE <<>>

uploadOptions(uploadsQuery) ==
    IF uploadsQuery.status = "success"
    THEN MapSeq(uploadsQuery.data, Decorate)
    ELSE <<>>

(* Array.prototype.find on models.data: the first model of that name, as a
   sequence of one element, or the empty sequence for undefined *)
FindModel(modelsQuery, modelName) ==
    LET hits == {i \in DOMAIN modelsQuery.data :
                   modelsQuery.data[i].ai_model_name = modelName}
    IN IF modelsQuery.status = "success" /\ hits # {}
       THEN <<modelsQuery.data[CHOOSE i \in hits : \A j \in hits : i <= j]>>
       ELSE <<>>

(* The toast of the component body while a catalog query is in error *)
RenderToasts(sk, up, mo) ==
    IF sk.status = "error" \/ up.status = "error" \/ mo.status = "error"
    THEN LET error == IF sk.status = "error" THEN sk.error
                      ELSE IF up.status = "error" THEN up.error
                      ELSE mo.error
         IN <<[title |-> "Something went wrong.",
               description |-> TemplateString(error.detail),
               status |-> "error"]>>
    ELSE <<>>

----------------------------------------------------------------------------
(* The state after the component is mounted *)

(* A member of each type, as the members query returns it *)
BaseMember(type) ==
    [type |-> type, name |-> NameBob, role |-> "developer", backstory |-> "",
     model |-> "gpt-4o", provider |-> "openai", temperature |-> "0.5",
     interrupt |-> FALSE, skills |-> <<>>, uploads |-> <<>>]

(* The members the form may be opened on: one of each type, and members
   with no temperature, with a skill, with another model *)
Members ==
    {BaseMember(t) : t \in MemberTypes}
    \cup {[BaseMember(t) EXCEPT !.temperature = Null] : t \in {"worker", "chatbot"}}
    \cup {[BaseMember("worker") EXCEPT !.skills = <<SkillSearch>>],
          [BaseMember("leader") EXCEPT !.model = "claude-3",
                                       !.provider = "anthropic"]}

(* Nothing is on screen before the first render *)
NotRendered ==
    [skill |-> <<>>, upload |-> <<>>, showSkills |-> FALSE,
     showUploads |-> FALSE, showInterrupt |-> FALSE, types |-> <<>>,
     error |-> ""]

(* The render reads a property of undefined (memberConfig.enableSkillTools,
   memberConfig.selection): a TypeError is thrown and nothing is on screen *)
RenderThrows == [NotRendered EXCEPT !.error = "TypeError"]

(* What a render puts on screen from the draft's type and the catalogs: the
   two option lists, the gated fields that are rendered, and the options of
   the type select (which the inline panel does not have) *)
Rendered(m, sk, up, values) ==
    IF memberConfig(values) = NoConfig
    THEN RenderThrows
    ELSE [skill |-> skillOptions(sk, values),
          upload |-> uploadOptions(up),
          showSkills |-> memberConfig(values).enableSkillTools,
          showUploads |-> memberConfig(values).enableUploadTools,
          showInterrupt |-> memberConfig(values).enableInterrupt,
          types |-> IF IsInline(m) THEN <<>> ELSE memberConfig(values).selection,
          error |-> ""]

(* An event is handled while the bound on events allows it *)
Handling == steps < MaxSteps

(* What a render derives and shows, after one more event was handled *)
Render(handlerToasts) ==
    /\ steps' = steps + 1
    /\ options' = Rendered(member', skills', uploads', formValues')
    /\ toasts' = handlerToasts \o RenderToasts(skills', uploads', models')

Init ==
    /\ member \in Members
    /\ isOpen = FALSE
    /\ skills = QueryLoading
    /\ uploads = QueryLoading
    /\ models = QueryLoading
    /\ formValues = FormValuesOf(member)
    /\ defaultValues = FormValuesOf(member)
    /\ isDirty = FALSE
    /\ inFlight = {}
    /\ currentMutation = 0
    /\ calls = 0
    /\ steps = 0
    /\ selectedModelProvider = "openai"
    /\ serverMember = member
    /\ invalidated = FALSE
    /\ options = Rendered(member, skills, uploads, formValues)
    /\ toasts = <<>>
    /\ lastOp = [op |-> "mount", arg |-> ""]

(* The form is on screen and takes input: the inline panel is rendered
   whatever isOpen is, the modal dialog only while it is open *)
Interactive == IsInline(member) \/ isOpen

(* mutation.isLoading: the call the hook observes is the last one issued *)
mutationIsLoading == \E m \in inFlight : m.id = currentMutation

(* The Save button of the modal footer: isLoading disables a Button as
   isDisabled does *)
SaveEnabled == isDirty /\ IsValid(formValues) /\ ~mutationIsLoading

----------------------------------------------------------------------------
(* The parent opens the editor *)
OpenSession ==
    /\ Handling
    /\ ~isOpen
    /\ isOpen' = TRUE
    /\ lastOp' = [op |-> "open", arg |-> ""]
    /\ UNCHANGED <<member, skills, uploads, models, formValues, defaultValues,
                   isDirty, inFlight, currentMutation, calls, selectedModelProvider, serverMember, invalidated>>
    /\ Render(<<>>)

(* The useEffect on [member.model, models] *)
ProviderEffect(m, modelsQuery, current) ==
    IF m.model # "" /\ FindModel(modelsQuery, m.model) # <<>>
    THEN FindModel(modelsQuery, m.model)[1].provider.provider_name
    ELSE current

(* One of the three catalog queries settles *)
SkillsSettle ==
    /\ Handling
    /\ skills.status = "loading"
    /\ skills' \in {QuerySuccess(SkillCatalog), QueryError("skills unavailable")}
    /\ lastOp' = [op |-> "skillsSettled", arg |-> ""]
    /\ UNCHANGED <<member, isOpen, uploads, models, formValues, defaultValues,
                   isDirty, inFlight, currentMutation, calls, selectedModelProvider, serverMember, invalidated>>
    /\ Render(<<>>)

UploadsSettle ==
    /\ Handling
    /\ uploads.status = "loading"
    /\ uploads' \in {QuerySuccess(UploadCatalog), QueryError("uploads unavailable")}
    /\ lastOp' = [op |-> "uploadsSettled", arg |-> ""]
    /\ UNCHANGED <<member, isOpen, skills, models, formValues, defaultValues,
                   isDirty, inFlight, currentMutation, calls, selectedModelProvider, serverMember, invalidated>>
    /\ Render(<<>>)

ModelsSettle ==
    /\ Handling
    /\ models.status = "loading"
    /\ models' \in {QuerySuccess(ModelCatalog), QueryError("models unavailable")}
    /\ selectedModelProvider' = ProviderEffect(member, models', selectedModelProvider)
    /\ lastOp' = [op |-> "modelsSettled", arg |-> ""]
    /\ UNCHANGED <<member, isOpen, skills, uploads, formValues, defaultValues,
                   isDirty, inFlight, currentMutation, calls, serverMember, invalidated>>
    /\ Render(<<>>)

----------------------------------------------------------------------------
(* Field edits *)

(* The form state of useForm *)
FormState == [values |-> formValues, defaults |-> defaultValues, isDirty |-> isDirty]

(* A field write that flips isDirty whatever the values are *)
setField_ToggleDirty(form, name, v) ==
    [values |-> [form.values EXCEPT ![name] = v],
     defaults |-> form.defaults,
     isDirty |-> ~form.isDirty]

(* A change event of a registered field with the value v: the value is
   stored and isDirty is recomputed by comparing all values with the default
   values *)
setField(form, name, v) ==
    [values |-> [form.values EXCEPT ![name] = v],
     defaults |-> form.defaults,
     isDirty |-> [form.values EXCEPT ![name] = v] # form.defaults]

(* The user changes a field on screen to another value *)
FieldChange(name, v, op) ==
    /\ Handling
    /\ Interactive
    /\ v # formValues[name]
    /\ formValues' = setField(FormState, name, v).values
    /\ isDirty' = setField(FormState, name, v).isDirty
    /\ lastOp' = [op |-> op, arg |-> ""]
    /\ UNCHANGED <<member, isOpen, skills, uploads, models, defaultValues,
                   inFlight, currentMutation, calls, selectedModelProvider,
                   serverMember, invalidated>>
    /\ Render(<<>>)

(* A type select that is never disabled and offers every member type *)
SetType_Unlocked ==
    /\ ~IsInline(member)
    /\ \E t \in MemberTypes :
         FieldChange("type", t, "setType")

(* The type select of the modal dialog: the options are the selection of the
   current type's configuration *)
SetType ==
    /\ ~IsInline(member)
    /\ ~TypeDisabled(member)
    /\ \E t \in Range(memberConfig(formValues).selection) :
         FieldChange("type", t, "setType")

SetName ==
    \E n \in Names : FieldChange("name", n, "setName")

SetRole ==
    \E r \in Roles : FieldChange("role", r, "setRole")

SetBackstory ==
    \E b \in Backstories :
      FieldChange("backstory", b, "setBackstory")

SetTemperature ==
    \E v \in SliderValues :
      FieldChange("temperature", v, "setTemperature")

(* The interrupt checkbox, rendered only with enableInterrupt *)
SetInterrupt ==
    /\ memberConfig(formValues).enableInterrupt
    /\ FieldChange("interrupt", ~formValues.interrupt, "setInterrupt")

(* A multi-select: an option not yet selected is added at the end, or one
   selected entry is removed *)
MultiSelectChanges(value, opts) ==
    {Append(value, o) : o \in {x \in Range(opts) :
                                 \A i \in DOMAIN value : value[i].id # x.id}}
    \cup {SelectSeq(value, LAMBDA e : e.id # value[i].id) : i \in DOMAIN value}

(* The skills multi-select, rendered only with enableSkillTools *)
SetSkills ==
    /\ memberConfig(formValues).enableSkillTools
    /\ \E v \in MultiSelectChanges(formValues.skills, options.skill) :
         FieldChange("skills", v, "setSkills")

(* The uploads multi-select, rendered only with enableUploadTools *)
SetUploads ==
    /\ memberConfig(formValues).enableUploadTools
    /\ \E v \in MultiSelectChanges(formValues.uploads, options.upload) :
         FieldChange("uploads", v, "setUploads")

(* onModelSelect without its setValue("provider", ...) *)
onModelSelect_ModelOnly(modelName) ==
    LET selectedModel == FindModel(models, modelName)
    IN IF selectedModel # <<>>
       THEN /\ formValues' = [formValues EXCEPT !.model = modelName]
            /\ selectedModelProvider' = selectedModel[1].provider.provider_name
       ELSE UNCHANGED <<formValues, selectedModelProvider>>

(* onModelSelect: two setValue calls, which store the values and leave
   formState.isDirty as it is (setValue without shouldDirty), and the
   provider of the selector *)
onModelSelect(modelName) ==
    LET selectedModel == FindModel(models, modelName)
    IN IF selectedModel # <<>>
       THEN /\ formValues' =
                 [formValues EXCEPT
                    !.model = modelName,
                    !.provider = selectedModel[1].provider.provider_name]
            /\ selectedModelProvider' = selectedModel[1].provider.provider_name
       ELSE UNCHANGED <<formValues, selectedModelProvider>>

SelectModel ==
    /\ Handling
    /\ Interactive
    /\ \E modelName \in ModelNames :
         /\ onModelSelect(modelName)
         /\ lastOp' = [op |-> "selectModel", arg |-> modelName]
    /\ UNCHANGED <<member, isOpen, skills, uploads, models, defaultValues,
                   isDirty, inFlight, currentMutation, calls, serverMember,
                   invalidated>>
    /\ Render(<<>>)

----------------------------------------------------------------------------
(* Submission *)

(* mutate that issues the call and once more, as a retry would *)
mutate_Twice(data) ==
    /\ inFlight' = inFlight \cup {[id |-> calls + 1, data |-> data],
                                  [id |-> calls + 2, data |-> data]}
    /\ currentMutation' = calls + 2
    /\ calls' = calls + 2

(* mutation.mutate(data): updateMember is called with the form's values as
   the request body, and the hook observes this call from now on *)
mutate(data) ==
    /\ inFlight' = inFlight \cup {[id |-> calls + 1, data |-> data]}
    /\ currentMutation' = calls + 1
    /\ calls' = calls + 1

(* handleSubmit that runs onSubmit without validating *)
handleSubmit_NoValidation ==
    /\ mutate(formValues)
    /\ lastOp' = [op |-> "submitSent", arg |-> ""]

(* handleSubmit(onSubmit): onSubmit runs only when every rule passes *)
handleSubmit ==
    IF IsValid(formValues)
    THEN /\ mutate(formValues)
         /\ lastOp' = [op |-> "submitSent", arg |-> ""]
    ELSE /\ UNCHANGED <<inFlight, currentMutation, calls>>
         /\ lastOp' = [op |-> "submitInvalid", arg |-> ""]

(* A submit attempt reaches handleSubmit: always on the inline panel's form,
   which has no button of its own, and in the modal dialog when the Save
   button is enabled *)
SubmitReachesHandler(inline) == inline \/ SaveEnabled

(* A submit attempt: the Save button of the modal dialog, which does nothing
   while it is disabled, or a submit event on the inline panel's form *)
Submit ==
    /\ Handling
    /\ Interactive
    /\ IF SubmitReachesHandler(IsInline(member))
       THEN handleSubmit
       ELSE /\ UNCHANGED <<inFlight, currentMutation, calls>>
            /\ lastOp' = [op |-> "submitDisabled", arg |-> ""]
    /\ UNCHANGED <<member, isOpen, skills, uploads, models, formValues,
                   defaultValues, isDirty, selectedModelProvider,
                   serverMember, invalidated>>
    /\ Render(<<>>)

(* A member as the server returns it: nested entities without decorations *)
PlainMember(data) ==
    [data EXCEPT !.skills = MapSeq(data.skills, Plain),
                 !.uploads = MapSeq(data.uploads, Plain)]

(* The server answers with the member it stored: the request body, or the
   request body with a field it adjusted *)
ServerResponses(data) ==
    {PlainMember(data), [PlainMember(data) EXCEPT !.temperature = "0.7"]}

(* The details an ApiError may carry; body.detail may be missing *)
ErrorDetails == {"duplicate name", Undefined}

SuccessToast ==
    [title |-> "Success!", description |-> "Team updated successfully.",
     status |-> "success"]

(* onError with a fixed text in place of the error's detail *)
ErrorToast_FixedText(err) ==
    [title |-> "Something went wrong.",
     description |-> "Update failed.", status |-> "error"]

(* onError: the toast carries `${err.body?.detail}` *)
ErrorToast(err) ==
    [title |-> "Something went wrong.",
     description |-> TemplateString(err.detail), status |-> "error"]

(* reset(values): the values become the form's values and default values *)
reset(values) ==
    /\ formValues' = values
    /\ defaultValues' = values
    /\ isDirty' = FALSE

(* onSuccess with reset() in place of reset(data) *)
onSuccess_ResetWithoutData(data) ==
    /\ reset(defaultValues)
    /\ isOpen' = FALSE

(* onSuccess: the toast is SuccessToast; reset(data), then onClose() *)
onSuccess(data) ==
    /\ reset(data)
    /\ isOpen' = FALSE

(* A call succeeds: onSuccess, then onSettled invalidates the members query *)
MutationSuccess ==
    \E m \in inFlight : \E data \in ServerResponses(m.data) :
      /\ Handling
      /\ inFlight' = inFlight \ {m}
      /\ serverMember' = data
      /\ onSuccess(data)
      /\ invalidated' = TRUE
      /\ lastOp' = [op |-> "onSuccess", arg |-> ""]
      /\ UNCHANGED <<member, skills, uploads, models, currentMutation, calls,
                     selectedModelProvider>>
      /\ Render(<<SuccessToast>>)

(* A call fails: onError, then onSettled invalidates the members query *)
MutationError ==
    \E m \in inFlight : \E detail \in ErrorDetails :
      /\ Handling
      /\ inFlight' = inFlight \ {m}
      /\ invalidated' = TRUE
      /\ lastOp' = [op |-> "onError", arg |-> detail]
      /\ UNCHANGED <<member, isOpen, skills, uploads, models, formValues,
                     defaultValues, isDirty, currentMutation, calls, selectedModelProvider, serverMember>>
      /\ Render(<<ErrorToast([detail |-> detail])>>)

(* The Cancel button of the modal footer: reset() to the default values,
   then onClose() *)
onCancel ==
    /\ Handling
    /\ isOpen
    /\ ~IsInline(member)
    /\ reset(defaultValues)
    /\ isOpen' = FALSE
    /\ lastOp' = [op |-> "onCancel", arg |-> ""]
    /\ UNCHANGED <<member, skills, uploads, models, inFlight, currentMutation,
                   calls, selectedModelProvider, serverMember,
                   invalidated>>
    /\ Render(<<>>)

(* The dialog's own close control (close button, Escape, overlay):
   the Modal calls onClose *)
CloseDialog ==
    /\ Handling
    /\ isOpen
    /\ ~IsInline(member)
    /\ isOpen' = FALSE
    /\ lastOp' = [op |-> "closeDialog", arg |-> ""]
    /\ UNCHANGED <<member, skills, uploads, models, formValues, defaultValues,
                   isDirty, inFlight, currentMutation, calls, selectedModelProvider, serverMember, invalidated>>
    /\ Render(<<>>)

(* The invalidated members query refetches and the parent passes the stored
   member down: useForm resets to its values option when the option changed *)
MemberRefetch ==
    /\ Handling
    /\ invalidated
    /\ invalidated' = FALSE
    /\ member' = serverMember
    /\ IF FormValuesOf(member') # FormValuesOf(member)
       THEN reset(FormValuesOf(member'))
       ELSE UNCHANGED <<formValues, defaultValues, isDirty>>
    /\ selectedModelProvider' =
         IF member'.model # member.model
         THEN ProviderEffect(member', models, selectedModelProvider)
         ELSE selectedModelProvider
    /\ lastOp' = [op |-> "memberRefetch", arg |-> ""]
    /\ UNCHANGED <<isOpen, skills, uploads, models, inFlight, currentMutation,
                   calls, serverMember>>
    /\ Render(<<>>)

----------------------------------------------------------------------------

Next ==
    \/ OpenSession
    \/ SkillsSettle
    \/ UploadsSettle
    \/ ModelsSettle
    \/ SetType
    \/ SetName
    \/ SetRole
    \/ SetBackstory
    \/ SetTemperature
    \/ SetInterrupt
    \/ SetSkills
    \/ SetUploads
    \/ SelectModel
    \/ Submit
    \/ MutationSuccess
    \/ MutationError
    \/ onCancel
    \/ CloseDialog
    \/ MemberRefetch

Spec == Init /\ [][Next]_vars

----------------------------------------------------------------------------
(* The option lists as a function of the catalog and the type: the component
   is mounted on a member of any type with the skills query in any state,
   and renders *)

SkillCatalogs == InjectiveSeqs(SkillUniverse, MaxCatalog)

UploadCatalogs == InjectiveSeqs(UploadUniverse, MaxCatalog)

InitOptions ==
    /\ member \in {BaseMember(t) : t \in MemberTypes}
    /\ isOpen = FALSE
    /\ skills \in {QueryLoading, QueryError("skills unavailable")}
                  \cup {QuerySuccess(c) : c \in SkillCatalogs}
    /\ uploads \in {QueryLoading} \cup {QuerySuccess(c) : c \in UploadCatalogs}
    /\ models = QueryLoading
    /\ formValues = FormValuesOf(member)
    /\ defaultValues = FormValuesOf(member)
    /\ isDirty = FALSE
    /\ inFlight = {}
    /\ currentMutation = 0
    /\ calls = 0
    /\ steps = 0
    /\ selectedModelProvider = "openai"
    /\ serverMember = member
    /\ invalidated = FALSE
    /\ options = NotRendered
    /\ toasts = <<>>
    /\ lastOp = [op |-> "mount", arg |-> ""]

FirstRender ==
    /\ Handling
    /\ lastOp.op = "mount"
    /\ lastOp' = [op |-> "render", arg |-> ""]
    /\ UNCHANGED <<member, isOpen, skills, uploads, models, formValues,
                   defaultValues, isDirty, inFlight, currentMutation, calls,
                   selectedModelProvider, serverMember, invalidated>>
    /\ Render(<<>>)

NextOptions == FirstRender

SpecOptions == InitOptions /\ [][NextOptions]_vars

(* The component is mounted on a member whose type the members query
   returned as a string that is none of the member types, or on a member of
   a known type, and renders *)
UnknownTypes == {"supervisor", "planner"}

InitAnyType ==
    /\ member \in {BaseMember(t) : t \in MemberTypes \cup UnknownTypes}
    /\ isOpen = FALSE
    /\ skills \in {QueryLoading, QueryError("skills unavailable")}
                  \cup {QuerySuccess(c) : c \in SkillCatalogs}
    /\ uploads \in {QueryLoading, QuerySuccess(UploadCatalog)}
    /\ models = QueryLoading
    /\ formValues = FormValuesOf(member)
    /\ defaultValues = FormValuesOf(member)
    /\ isDirty = FALSE
    /\ inFlight = {}
    /\ currentMutation = 0
    /\ calls = 0
    /\ steps = 0
    /\ selectedModelProvider = "openai"
    /\ serverMember = member
    /\ invalidated = FALSE
    /\ options = NotRendered
    /\ toasts = <<>>
    /\ lastOp = [op |-> "mount", arg |-> ""]

SpecAnyType == InitAnyType /\ [][NextOptions]_vars

----------------------------------------------------------------------------
(* Properties *)

(* The edit session is open: the form is on screen *)
SessionOpen == Interactive

SubmitOps == {"submitSent", "submitInvalid", "submitDisabled"}

(* Occurrences of a toast in what the last step sent to the sink *)
ToastCount(t) == Cardinality({i \in DOMAIN toasts : toasts[i] = t})

(* C1: in every reachable state at most one updateMember call is in flight,
   in the modal dialog and in the inline panel *)
C1_AtMostOneInFlight == Cardinality(inFlight) <= 1

(* C2: right after a successful response is handled, the draft and the
   committed snapshot are the member the server returned, dirty is false,
   onClose was called and the sink received exactly one success event *)
C2_SuccessCommits ==
    lastOp.op = "onSuccess" =>
      /\ formValues = serverMember
      /\ defaultValues = serverMember
      /\ ~isDirty
      /\ ~isOpen
      /\ ToastCount(SuccessToast) = 1

(* C2 witness: a success was handled whose response differs from the draft
   that was submitted (scenario D: the server returns temperature 0.7) *)
C2_Witness ==
    /\ lastOp.op = "onSuccess"
    /\ ~IsInline(member)
    /\ serverMember.temperature = "0.7"
    /\ member.temperature = "0.5"

(* C3 as stated: when the call of a dirty draft, submitted from a session
   that is open, fails with a detail, then after the failure is handled the
   session is open, the draft is the draft that was submitted and still
   dirty, submitting is false and the sink received the literal detail *)
C3_FailureKeepsSubmittedDraft ==
    [][(/\ lastOp'.op = "onError" /\ lastOp'.arg # Undefined
        /\ SessionOpen
        /\ \A m \in inFlight \ inFlight' : m.data # defaultValues) =>
         /\ SessionOpen'
         /\ \E m \in inFlight \ inFlight' : formValues' = m.data
         /\ isDirty'
         /\ ~mutationIsLoading'
         /\ \E i \in DOMAIN toasts' :
              toasts'[i].status = "error" /\ toasts'[i].description = lastOp'.arg
      ]_vars

(* C3 amended: handling a failure leaves the draft, the committed snapshot,
   dirty and the session's open flag as they were just before the response,
   takes the failed call (and no other) out of flight, and sends the sink one
   error event carrying the error's detail as a template literal prints it *)
C3_FailureChangesNothing ==
    [][lastOp'.op = "onError" =>
         /\ formValues' = formValues
         /\ defaultValues' = defaultValues
         /\ isDirty' = isDirty
         /\ isOpen' = isOpen
         /\ inFlight' \subseteq inFlight
         /\ Cardinality(inFlight \ inFlight') = 1
         /\ calls' = calls
         /\ toasts'[1] = [title |-> "Something went wrong.",
                          description |-> IF lastOp'.arg = Undefined
                                          THEN "undefined" ELSE lastOp'.arg,
                          status |-> "error"]
         /\ \A i \in DOMAIN toasts' : toasts'[i].status # "success"
      ]_vars

(* C3 witness: a failure with the detail "duplicate name" was handled, the
   session is open and the draft is still dirty (scenario E) *)
C3_Witness ==
    /\ lastOp = [op |-> "onError", arg |-> "duplicate name"]
    /\ ~IsInline(member)
    /\ isOpen
    /\ isDirty
    /\ formValues # defaultValues
    /\ toasts[1].description = "duplicate name"

(* The state of an edit session *)
Phase ==
    IF ~SessionOpen THEN "Closed"
    ELSE IF inFlight # {} THEN "Submitting"
    ELSE IF isDirty THEN "OpenDirty"
    ELSE "OpenPristine"

(* C4: every change of the session's state is Closed -> Open(pristine),
   Open(pristine) -> Open(dirty), Open(dirty) -> Submitting (from a valid
   draft), Submitting -> Closed on success, Submitting -> Open(dirty) on
   failure, or a cancel from an Open state to Closed *)
C4_SessionTransitions ==
    [][Phase' # Phase =>
         \/ Phase = "Closed" /\ Phase' = "OpenPristine"
         \/ Phase = "OpenPristine" /\ Phase' = "OpenDirty"
         \/ /\ Phase = "OpenDirty" /\ Phase' = "Submitting"
            /\ IsValid(formValues)
         \/ /\ Phase = "Submitting" /\ Phase' = "Closed"
            /\ lastOp'.op = "onSuccess"
         \/ /\ Phase = "Submitting" /\ Phase' = "OpenDirty"
            /\ lastOp'.op = "onError"
         \/ /\ Phase \in {"OpenPristine", "OpenDirty"} /\ Phase' = "Closed"
            /\ lastOp'.op \in {"onCancel", "closeDialog"}
      ]_vars

(* C5: closing an open session without saving, by Cancel or by the dialog's
   close control, discards the draft: the draft is the committed member,
   dirty is false, the session is closed, no call was issued and the
   committed member is unchanged *)
C5_CloseDiscardsDraft ==
    [][lastOp'.op \in {"onCancel", "closeDialog"} =>
         /\ formValues' = defaultValues'
         /\ ~isDirty'
         /\ ~isOpen'
         /\ calls' = calls
         /\ inFlight' = inFlight
         /\ defaultValues' = defaultValues
      ]_vars

(* C6: a submit attempt on a draft that fails a field rule issues no
   updateMember call, leaves valid false and keeps the session open with the
   draft unchanged, in both views *)
C6_InvalidSubmitBlocked ==
    [][(lastOp'.op \in SubmitOps /\ ~IsValid(formValues)) =>
         /\ lastOp'.op # "submitSent"
         /\ calls' = calls
         /\ inFlight' = inFlight
         /\ ~IsValid(formValues')
         /\ formValues' = formValues
         /\ SessionOpen'
      ]_vars

(* C6 witness: a submit event on the inline panel was rejected by validation
   with the name "bad name!" (scenario C) *)
C6_Witness ==
    /\ lastOp.op = "submitInvalid"
    /\ formValues.name = NameBad
    /\ calls = 0

(* C7: dirty holds iff the draft differs from the committed snapshot *)
C7_DirtyIffDiffers == isDirty <=> (formValues # defaultValues)

(* C8: selectModel of a name the loaded catalog holds sets model and the
   provider of a catalog model of that name in one step and nothing else of
   the draft; otherwise the draft is unchanged; and a step that changes
   draft.provider is selectModel or replaces the whole draft by a reset *)
C8_SelectModelAtomic ==
    [][/\ lastOp'.op = "selectModel" =>
            LET hits == {i \in DOMAIN models.data :
                           models.data[i].ai_model_name = lastOp'.arg}
            IN IF models.status = "success" /\ hits # {}
               THEN \E i \in hits :
                      formValues' =
                        [formValues EXCEPT
                           !.model = lastOp'.arg,
                           !.provider = models.data[i].provider.provider_name]
               ELSE formValues' = formValues
       /\ formValues'.provider # formValues.provider =>
            \/ lastOp'.op = "selectModel"
            \/ /\ lastOp'.op \in {"onSuccess", "onCancel", "memberRefetch"}
               /\ formValues' = defaultValues'
      ]_vars

(* C8 witness: claude-3 was selected on a member of model gpt-4o *)
C8_Witness ==
    /\ lastOp = [op |-> "selectModel", arg |-> "claude-3"]
    /\ defaultValues.model = "gpt-4o"
    /\ formValues.model = "claude-3"
    /\ formValues.provider = "anthropic"

(* C9: the type of every member under edit, which ranges over the 8 member
   types, has an entry in the capability table and is in that entry's
   selection *)
C9_SelectionReflexive ==
    \A t \in {member.type, formValues.type} :
      /\ t \in MemberTypes
      /\ t \in DOMAIN ALLOWED_MEMBER_CONFIGS
      /\ t \in Range(ALLOWED_MEMBER_CONFIGS[t].selection)

(* C10: the skill options hold no ask-human skill when the type's
   enableHumanTool is false, hold it exactly once when the flag is true and
   the catalog holds it, and hold every other catalog skill whatever the
   flag (worker with [search, ask-human] gives [search]; freelancer both) *)
C10_SkillOptions ==
    (lastOp.op = "render" /\ skills.status = "success") =>
      LET humans == {i \in DOMAIN options.skill :
                       options.skill[i].name = "ask-human"}
          flag == ALLOWED_MEMBER_CONFIGS[formValues.type].enableHumanTool
      IN /\ ~flag => humans = {}
         /\ (flag /\ SkillAskHuman \in Range(skills.data)) =>
              Cardinality(humans) = 1
         /\ \A i \in DOMAIN skills.data :
              skills.data[i].name # "ask-human" =>
                Cardinality({j \in DOMAIN options.skill :
                               options.skill[j] = Decorate(skills.data[i])}) = 1
         /\ (formValues.type = "worker" /\ skills.data = SkillCatalog) =>
              options.skill = <<Decorate(SkillSearch)>>
         /\ (formValues.type = "freelancer" /\ skills.data = SkillCatalog) =>
              options.skill = <<Decorate(SkillSearch), Decorate(SkillAskHuman)>>

(* C10 witness: a worker's options over [search, ask-human] (scenario A) *)
C10_Witness ==
    /\ lastOp.op = "render"
    /\ formValues.type = "worker"
    /\ skills.data = SkillCatalog
    /\ Len(options.skill) = 1

(* C11: what is on screen is gated by the configuration of the draft's
   current type, not by the member's: the skills, uploads and interrupt
   fields, the ask-human option and the options of the type select; right
   after the type was changed they are those of the new type *)
C11_GatingFollowsDraftType ==
    LET config == ALLOWED_MEMBER_CONFIGS[formValues.type]
    IN /\ options.showSkills = config.enableSkillTools
       /\ options.showUploads = config.enableUploadTools
       /\ options.showInterrupt = config.enableInterrupt
       /\ (\E i \in DOMAIN options.skill : options.skill[i].name = "ask-human")
            <=> /\ config.enableHumanTool
                /\ skills.status = "success"
                /\ \E i \in DOMAIN skills.data : skills.data[i].name = "ask-human"
       /\ ~IsInline(member) => options.types = config.selection

(* C11 witness: the type of a worker was just changed to leader, whose
   configuration hides the skills and uploads fields the worker's shows *)
C11_Witness ==
    /\ lastOp.op = "setType"
    /\ isOpen
    /\ member.type = "worker"
    /\ formValues.type = "leader"
    /\ ~options.showSkills
    /\ ALLOWED_MEMBER_CONFIGS[member.type].enableSkillTools

(* C12: while a member whose type is root, starts with freelancer or ends
   with bot is under edit, the draft's type is the member's type and no
   updateMember call carries another type *)
C12_LockedTypeImmutable ==
    member.type \in {"root", "freelancer", "freelancer_root", "chatbot", "ragbot"} =>
      /\ formValues.type = member.type
      /\ defaultValues.type = member.type
      /\ \A m \in inFlight : m.data.type = member.type

(* C12 witness: the dialog of a freelancer was edited and its draft sent *)
C12_Witness ==
    /\ member.type = "freelancer"
    /\ lastOp.op = "submitSent"
    /\ formValues # FormValuesOf(member)
    /\ \E m \in inFlight : m.data = formValues

(* C13: the request body of every updateMember call has the label/value
   decorations stripped, its skills and uploads being references by id and
   not the nested objects *)
C13_PayloadStripped ==
    \A m \in inFlight :
      /\ \A i \in DOMAIN m.data.skills : DOMAIN m.data.skills[i] = {"id"}
      /\ \A i \in DOMAIN m.data.uploads : DOMAIN m.data.uploads[i] = {"id"}

(* C14: a submit that is carried out issues exactly one updateMember call,
   no other step issues a call, and the handling of a failure takes the
   failed call out of flight without issuing it again *)
C14_OneCallPerSubmit ==
    [][/\ lastOp'.op = "submitSent" =>
            /\ calls' = calls + 1
            /\ \E m \in inFlight' \ inFlight :
                 inFlight' = inFlight \cup {m} /\ m.data = formValues
       /\ calls' # calls => lastOp'.op = "submitSent"
       /\ ~(inFlight' \subseteq inFlight) => lastOp'.op = "submitSent"
       /\ lastOp'.op = "onError" =>
            /\ calls' = calls
            /\ inFlight' \subseteq inFlight /\ inFlight' # inFlight
      ]_vars

(* C14 witness: in the dialog the first call failed, which left the dialog
   open, and the user pressed Save again: the second call is the only one in
   flight *)
C14_Witness ==
    /\ lastOp.op = "submitSent"
    /\ ~IsInline(member)
    /\ isOpen
    /\ calls = 2
    /\ inFlight = {[id |-> 2, data |-> formValues]}
    /\ invalidated
    /\ serverMember = member

(* C15: in whatever order the three catalog queries settle and whichever of
   them fail, a catalog that loaded fills its option list, a catalog that
   failed leaves it empty, and the failure of a catalog is reported to the
   sink with that catalog's own detail when it settles *)
C15_EachFailureReported ==
    [][/\ skills'.status = "success" =>
            Len(options'.skill) > 0 /\ Range(options'.skill) \subseteq
                                         {Decorate(e) : e \in Range(skills'.data)}
       /\ skills'.status = "error" => options'.skill = <<>>
       /\ uploads'.status = "success" =>
            options'.upload = MapSeq(uploads'.data, Decorate)
       /\ uploads'.status = "error" => options'.upload = <<>>
       /\ (lastOp'.op = "skillsSettled" /\ skills'.status = "error") =>
            \E i \in DOMAIN toasts' :
              toasts'[i].description = skills'.error.detail
       /\ (lastOp'.op = "uploadsSettled" /\ uploads'.status = "error") =>
            \E i \in DOMAIN toasts' :
              toasts'[i].description = uploads'.error.detail
       /\ (lastOp'.op = "modelsSettled" /\ models'.status = "error") =>
            \E i \in DOMAIN toasts' :
              toasts'[i].description = models'.error.detail
      ]_vars

(* C16: the configuration lookup gives a configuration for each of the 8
   member types, and for a draft type outside them it fails at the lookup
   with UnknownMemberType: it returns no undefined configuration, and the
   render that follows ends with that error *)
C16_UnknownTypeFailsAtLookup ==
    /\ formValues.type \in MemberTypes =>
         /\ memberConfig(formValues) = ALLOWED_MEMBER_CONFIGS[formValues.type]
         /\ lastOp.op = "render" => options.error = ""
    /\ formValues.type \notin MemberTypes =>
         /\ memberConfig(formValues) # NoConfig
         /\ lastOp.op = "render" => options.error = "UnknownMemberType"

(* C17: the view is the inline panel iff the member's type ends in bot, and
   the two views are the same in logic: on the form state reached, a submit
   attempt issues an updateMember call in the inline panel iff it does in
   the modal dialog *)
C17_ViewsEquivalent ==
    /\ IsInline(member) <=> member.type \in {"chatbot", "ragbot"}
    /\ (SubmitReachesHandler(TRUE) /\ IsValid(formValues))
         <=> (SubmitReachesHandler(FALSE) /\ IsValid(formValues))

(* The values a field may be set to *)
FieldInputs ==
    [type |-> MemberTypes, name |-> Names, role |-> Roles,
     backstory |-> Backstories, temperature |-> {"0", "0.5"},
     interrupt |-> BOOLEAN,
     skills |-> {<<>>, <<Decorate(SkillSearch)>>},
     uploads |-> {<<>>, <<Decorate(UploadHandbook)>>}]

(* C18: on every form state reached, setting a field to a value twice in a
   row gives the draft, dirty and valid that setting it once gives *)
C18_SetFieldIdempotent ==
    \A name \in DOMAIN FieldInputs : \A v \in FieldInputs[name] :
      LET once == setField(FormState, name, v)
          twice == setField(once, name, v)
      IN /\ twice.values = once.values
         /\ twice.isDirty = once.isDirty
         /\ twice.defaults = once.defaults
         /\ IsValid(twice.values) = IsValid(once.values)

(* C18 witness: the name was just set to "bad name!" on a form whose isDirty
   was false, and setting it again changes nothing *)
C18_Witness ==
    /\ lastOp.op = "setName"
    /\ formValues.name = NameBad
    /\ defaultValues.name = NameBob
    /\ isDirty
    /\ setField(FormState, "name", NameBad) = FormState

(* s is t with some entries left out, in t's order *)
IsSubsequence(s, t) ==
    \E f \in [DOMAIN s -> DOMAIN t] :
      /\ \A i, j \in DOMAIN s : i < j => f[i] < f[j]
      /\ \A i \in DOMAIN s : s[i] = t[f[i]]

(* C19: for every member type the upload options are the upload catalog
   entry by entry, each with its label and value, none left out, and the
   skill options are entries of the skills catalog in the catalog's order *)
C19_OptionsKeepCatalogOrder ==
    lastOp.op = "render" =>
      /\ uploads.status = "success" =>
           /\ Len(options.upload) = Len(uploads.data)
           /\ \A i \in DOMAIN uploads.data :
                options.upload[i] =
                  [id |-> uploads.data[i].id, name |-> uploads.data[i].name,
                   label |-> uploads.data[i].name, value |-> uploads.data[i].id]
      /\ skills.status = "success" =>
           IsSubsequence([i \in DOMAIN options.skill |->
                            [id |-> options.skill[i].id,
                             name |-> options.skill[i].name]],
                         skills.data)

(* C19 witness: a root member, whose configuration enables neither uploads
   nor the human tool, over two uploads and a skills catalog that begins
   with ask-human *)
C19_Witness ==
    /\ lastOp.op = "render"
    /\ member.type = "root"
    /\ uploads.data = <<UploadManual, UploadHandbook>>
    /\ Len(options.upload) = 2
    /\ skills.data = <<SkillAskHuman, SkillCalculator>>
    /\ Len(options.skill) = 1

(* C20: a response that arrives when the dialog was already closed while the
   call was in flight leaves the draft, the committed snapshot and dirty as
   they are, and runs no onSuccess, whose last statement is onClose(): onClose
   is not called a second time *)
C20_LateResponseIgnored ==
    [][(/\ lastOp'.op \in {"onSuccess", "onError"}
        /\ ~IsInline(member)
        /\ ~isOpen) =>
         /\ formValues' = formValues
         /\ defaultValues' = defaultValues
         /\ isDirty' = isDirty
         /\ lastOp'.op # "onSuccess"
      ]_vars

(* C21: the request body of every updateMember call agrees with the
   configuration of the type it carries: skills only with enableSkillTools,
   the ask-human skill only with enableHumanTool, uploads only with
   enableUploadTools, interrupt set only with enableInterrupt *)
C21_PayloadWithinConfig ==
    \A m \in inFlight :
      LET config == ALLOWED_MEMBER_CONFIGS[m.data.type]
      IN /\ m.data.skills # <<>> => config.enableSkillTools
         /\ (\E i \in DOMAIN m.data.skills : m.data.skills[i].name = "ask-human")
              => config.enableHumanTool
         /\ m.data.uploads # <<>> => config.enableUploadTools
         /\ m.data.interrupt => config.enableInterrupt

(* The types whose type control is disabled *)
LockedTypes == {"root", "freelancer", "freelancer_root", "chatbot", "ragbot"}

(* C22: while a member whose type control is enabled is under edit, no type
   offered by the type select is a locked type, and no step makes the draft,
   the stored member or the member under edit one of a locked type *)
C22_NoCrossingIntoLocked ==
    [][member.type \notin LockedTypes =>
         /\ \A U \in Range(options.types) : U \notin LockedTypes
         /\ formValues'.type \notin LockedTypes
         /\ serverMember'.type \notin LockedTypes
         /\ member'.type \notin LockedTypes
      ]_vars

(* C23: once the model catalog has loaded, the provider the model selector
   shows is the provider of a catalog model that has the name of the draft's
   current model *)
C23_SelectorShowsDraftProvider ==
    models.status = "success" =>
      \E i \in DOMAIN models.data :
        /\ models.data[i].ai_model_name = formValues.model
        /\ models.data[i].provider.provider_name = selectedModelProvider

====
